---- MODULE Spec2Model ----
(***************************************************************************)
(* Model of the Excel worksheet source: header processing and value        *)
(* coercion (utils.py), the Graph API client (client.py), the worksheet    *)
(* stream (streams.py) and the connection check (source.py).               *)
(*                                                                         *)
(* Python strings are sequences of one-character strings, so that          *)
(* concatenation, stripping, substring search and formatting are computed. *)
(* A cell (a JSON scalar of the API's "values" array) is a record          *)
(*   [k |-> kind, s |-> characters, n |-> integer, f |-> integer]          *)
(* with kind "null", "str", "int", "float" or "bool". Header cells are     *)
(* strings or null (List[str] in process_headers).                         *)
(***************************************************************************)
EXTENDS Integers, Sequences, FiniteSets, TLC

(***************************************************************************)
(* Bounds of the model.                                                    *)
(***************************************************************************)
\* longest raw header row that is enumerated
MaxHeaderLen == 3

(***************************************************************************)
(* Characters and Python string primitives.                                *)
(***************************************************************************)
UPPER == <<"A","B","C","D","E","F","G","H","I","J","K","L","M",
           "N","O","P","Q","R","S","T","U","V","W","X","Y","Z">>

LOWER == <<"a","b","c","d","e","f","g","h","i","j","k","l","m",
           "n","o","p","q","r","s","t","u","v","w","x","y","z">>

DIGITS == <<"0","1","2","3","4","5","6","7","8","9">>

Range(q) == {q[i] : i \in DOMAIN q}

\* str.isdigit() on an ASCII character
IsDigit(c) == c \in Range(DIGITS)

\* the class [a-zA-Z0-9] of the regular expression in normalize_column_name
IsAlnum(c) == c \in Range(UPPER) \cup Range(LOWER) \cup Range(DIGITS)

\* str.lower() on one character
LowerChar(c) ==
    IF c \in Range(UPPER)
    THEN LOWER[CHOOSE i \in DOMAIN UPPER : UPPER[i] = c]
    ELSE c

\* str.lower()
Lower(s) == [i \in DOMAIN s |-> LowerChar(s[i])]

RECURSIVE LStrip(_, _)
\* s without its leading characters that are in chars
LStrip(s, chars) ==
    IF s # <<>> /\ Head(s) \in chars THEN LStrip(Tail(s), chars) ELSE s

RECURSIVE RStrip(_, _)
\* s without its trailing characters that are in chars
RStrip(s, chars) ==
    IF s # <<>> /\ s[Len(s)] \in chars
    THEN RStrip(SubSeq(s, 1, Len(s) - 1), chars) ELSE s

\* the characters str.strip() removes
Whitespace == {" ", "\t", "\n"}

\* str.strip()
Strip(s) == RStrip(LStrip(s, Whitespace), Whitespace)

\* str.strip('_')
StripUnderscores(s) == RStrip(LStrip(s, {"_"}), {"_"})

\* "sub in s" for Python strings
Contains(s, sub) ==
    \E i \in 0..(Len(s) - Len(sub)) : SubSeq(s, i + 1, i + Len(sub)) = sub

RECURSIVE NatDigits(_)
\* decimal digits of a natural number
NatDigits(n) ==
    IF n < 10 THEN <<DIGITS[n + 1]>>
    ELSE NatDigits(n \div 10) \o <<DIGITS[(n % 10) + 1]>>

\* str(n) for an int
IntStr(n) == IF n < 0 THEN <<"-">> \o NatDigits(0 - n) ELSE NatDigits(n)

\* n zeros
Zeros(n) == [i \in 1..n |-> "0"]

(***************************************************************************)
(* Cells.                                                                  *)
(***************************************************************************)
\* None
Null == [k |-> "null", s |-> <<>>, n |-> 0, f |-> 0]

\* a str
Str(s) == [k |-> "str", s |-> s, n |-> 0, f |-> 0]

\* the int n (a number of a worksheet cell is a double, so every int the
\* API sends is within the range of float())
IntCell(n) == [k |-> "int", s |-> <<>>, n |-> n, f |-> 0]

\* the float n + d/10, 0 <= d <= 9, n >= 0
Float(n, d) == [k |-> "float", s |-> <<>>, n |-> n, f |-> d]

\* True (n = 1) or False (n = 0)
Bool(b) == [k |-> "bool", s |-> <<>>, n |-> IF b THEN 1 ELSE 0, f |-> 0]

\* str(value)
PyStr(v) ==
    CASE v.k = "null"  -> <<"N","o","n","e">>
      [] v.k = "str"   -> v.s
      [] v.k = "int"   -> IntStr(v.n)
      [] v.k = "float" -> IntStr(v.n) \o <<".">> \o NatDigits(v.f)
      [] v.k = "bool"  -> IF v.n = 1 THEN <<"T","r","u","e">>
                                     ELSE <<"F","a","l","s","e">>

\* bool(value): Python truthiness
Truthy(v) ==
    CASE v.k = "null"  -> FALSE
      [] v.k = "str"   -> v.s # <<>>
      [] v.k = "int"   -> v.n # 0
      [] v.k = "float" -> ~(v.n = 0 /\ v.f = 0)
      [] v.k = "bool"  -> v.n = 1

(***************************************************************************)
(* utils.py: header processing.                                            *)
(***************************************************************************)
RECURSIVE excel_column_label_loop(_, _)
\* the while loop of excel_column_label
excel_column_label_loop(col_index, label) ==
    IF col_index > 0
    THEN excel_column_label_loop((col_index - 1) \div 26,
                                 <<UPPER[((col_index - 1) % 26) + 1]>> \o label)
    ELSE label

\* 0-based column index to column letters A, B, ..., Z, AA, AB, ...
excel_column_label(col_index) == excel_column_label_loop(col_index + 1, <<>>)

\* unidecode.unidecode on one character: ASCII is kept, and of the other
\* characters the model holds "é" and "ß"
UnidecodeChar(c) ==
    CASE c = "é" -> <<"e">>
      [] c = "ß" -> <<"s", "s">>
      [] OTHER   -> <<c>>

RECURSIVE Unidecode(_)
\* unidecode.unidecode(name)
Unidecode(s) ==
    IF s = <<>> THEN <<>> ELSE UnidecodeChar(Head(s)) \o Unidecode(Tail(s))

RECURSIVE ReSubNonAlnum(_, _)
\* re.sub(r'[^a-zA-Z0-9]+', '_', s): inRun says the previous character was
\* part of the run of non-alphanumerics being replaced
ReSubNonAlnum(s, inRun) ==
    IF s = <<>> THEN <<>>
    ELSE IF IsAlnum(Head(s)) THEN <<Head(s)>> \o ReSubNonAlnum(Tail(s), FALSE)
    ELSE IF inRun THEN ReSubNonAlnum(Tail(s), TRUE)
    ELSE <<"_">> \o ReSubNonAlnum(Tail(s), TRUE)

\* normalize_column_name(name, names_conversion)
normalize_column_name(name, names_conversion) ==
    IF ~names_conversion \/ ~Truthy(name) THEN name
    ELSE LET ascii    == Unidecode(name.s)
             replaced == ReSubNonAlnum(ascii, FALSE)
             stripped == StripUnderscores(replaced)
             prefixed == IF stripped # <<>> /\ IsDigit(stripped[1])
                         THEN <<"_">> \o stripped ELSE stripped
             lowered  == Lower(prefixed)
         IN  IF lowered # <<>> THEN Str(lowered) ELSE Str(<<"c","o","l","u","m","n">>)

\* the name deduplicate_headers gives a repeated header at 0-based index idx
DuplicateName(header, idx) ==
    Str(PyStr(header) \o <<"_">> \o excel_column_label(idx) \o <<"1">>)

RECURSIVE deduplicate_headers_loop(_, _, _, _)
\* the for loop of deduplicate_headers: seen maps the headers met so far to
\* their count, result is the list built so far, idx the 0-based index
deduplicate_headers_loop(headers, idx, seen, result) ==
    IF idx >= Len(headers) THEN result
    ELSE LET header == headers[idx + 1]
         IN  IF header \in DOMAIN seen
             THEN deduplicate_headers_loop(headers, idx + 1,
                      [seen EXCEPT ![header] = @ + 1],
                      Append(result, DuplicateName(header, idx)))
             ELSE deduplicate_headers_loop(headers, idx + 1,
                      (header :> 1) @@ seen,
                      Append(result, header))

\* deduplicate_headers(headers)
deduplicate_headers(headers) ==
    deduplicate_headers_loop(headers, 0, <<>>, <<>>)

\* the index mapping process_headers builds: 0-based index -> header, for the
\* truthy headers
IndexMapping(headers) ==
    [idx \in {i \in 0..(Len(headers) - 1) : Truthy(headers[i + 1])}
        |-> headers[idx + 1]]

\* process_headers(raw_headers, names_conversion): (headers, index_mapping)
process_headers(raw_headers, names_conversion) ==
    LET normalized == [i \in DOMAIN raw_headers |->
                          normalize_column_name(raw_headers[i], names_conversion)]
        headers    == deduplicate_headers(normalized)
    IN  [headers |-> headers, index_mapping |-> IndexMapping(headers)]

(***************************************************************************)
(* utils.py: Excel serial dates. datetime + timedelta and strftime are     *)
(* computed on the proleptic Gregorian calendar, as Python's datetime does.*)
(***************************************************************************)
\* calendar.isleap
IsLeap(y) == (y % 4 = 0) /\ ((y % 100 # 0) \/ (y % 400 = 0))

\* days in month m of year y
DaysInMonth(y, m) ==
    IF m = 2 THEN (IF IsLeap(y) THEN 29 ELSE 28)
    ELSE IF m \in {4, 6, 9, 11} THEN 30 ELSE 31

\* days before January 1st of year y (datetime._days_before_year)
DaysBeforeYear(y) ==
    LET p == y - 1 IN p * 365 + (p \div 4) - (p \div 100) + (p \div 400)

RECURSIVE DaysBeforeMonth(_, _)
\* days of year y before the first of month m
DaysBeforeMonth(y, m) ==
    IF m = 1 THEN 0 ELSE DaysBeforeMonth(y, m - 1) + DaysInMonth(y, m - 1)

\* date.toordinal(): 0001-01-01 is day 1
Ymd2Ord(y, m, d) == DaysBeforeYear(y) + DaysBeforeMonth(y, m) + d

RECURSIVE MonthOf(_, _, _)
\* the month and day of the 0-based day n of year y, searching from month m
MonthOf(y, m, n) ==
    IF n >= DaysInMonth(y, m) THEN MonthOf(y, m + 1, n - DaysInMonth(y, m))
    ELSE [year |-> y, month |-> m, day |-> n + 1]

\* date.fromordinal() (datetime._ord2ymd)
Ord2Ymd(ordinal) ==
    LET n0   == ordinal - 1
        n400 == n0 \div 146097
        r400 == n0 % 146097
        n100 == r400 \div 36524
        r100 == r400 % 36524
        n4   == r100 \div 1461
        r4   == r100 % 1461
        n1   == r4 \div 365
        r1   == r4 % 365
        year == n400 * 400 + 1 + n100 * 100 + n4 * 4 + n1
    IN  IF n1 = 4 \/ n100 = 4
        THEN [year |-> year - 1, month |-> 12, day |-> 31]
        ELSE MonthOf(year, 1, r1)

\* n as at least width digits, zero padded
ZeroPad(n, width) ==
    LET d == NatDigits(n) IN Zeros(width - Len(d)) \o d

\* date.strftime("%Y-%m-%d")
StrfYmd(date) ==
    ZeroPad(date.year, 4) \o <<"-">> \o ZeroPad(date.month, 2)
        \o <<"-">> \o ZeroPad(date.day, 2)

\* the serial from which excel_serial_to_date subtracts one
LeapBugSerial == 60

\* the serial excel_serial_to_date adds to the epoch
AdjustedSerial(serial_number) ==
    IF serial_number >= LeapBugSerial THEN serial_number - 1 ELSE serial_number

\* excel_serial_to_date(serial_number), for an integral serial
excel_serial_to_date(serial_number) ==
    LET excel_epoch == Ymd2Ord(1899, 12, 30)
    IN  StrfYmd(Ord2Ymd(excel_epoch + AdjustedSerial(serial_number)))

(***************************************************************************)
(* utils.py: value coercion.                                               *)
(***************************************************************************)
date_keywords ==
    << <<"d","a","t","e">>, <<"t","i","m","e">>,
       <<"c","r","e","a","t","e","d">>, <<"u","p","d","a","t","e","d">>,
       <<"m","o","d","i","f","i","e","d">>, <<"e","x","p","i","r","e","s">>,
       <<"d","u","e">>, <<"d","e","a","d","l","i","n","e">> >>

\* is_excel_date_column(column_name), column_name a str
is_excel_date_column(column_name) ==
    LET column_lower == Lower(column_name.s)
    IN  \E i \in DOMAIN date_keywords : Contains(column_lower, date_keywords[i])

RECURSIVE DigitsValue(_, _)
\* the number a run of digits writes, acc the value of the digits read
DigitsValue(s, acc) ==
    IF s = <<>> THEN acc
    ELSE DigitsValue(Tail(s),
             acc * 10 + ((CHOOSE i \in DOMAIN DIGITS : DIGITS[i] = Head(s)) - 1))

AllDigits(s) == \A i \in DOMAIN s : IsDigit(s[i])

\* a float as the model needs it: sign, integral part, and whether there is
\* a non-zero fractional part
Num(neg, ip, frac) == [exc |-> "none", neg |-> neg, ip |-> ip, frac |-> frac]

\* float() raising the exception exc
FloatRaises(exc) == [exc |-> exc, neg |-> FALSE, ip |-> 0, frac |-> FALSE]

\* float(s) for a str of the form [ws] [+-] digits [. digits] [ws] or
\* [ws] [+-] . digits [ws]; any other str of the model raises ValueError
\* (the model's strings hold no exponent, "inf", "nan" or "_" forms)
FloatOfStr(s) ==
    LET t      == Strip(s)
        signed == t # <<>> /\ t[1] \in {"+", "-"}
        neg    == signed /\ t[1] = "-"
        body   == IF signed THEN Tail(t) ELSE t
        dots   == {i \in DOMAIN body : body[i] = "."}
        dot    == IF dots = {} THEN Len(body) + 1 ELSE CHOOSE i \in dots : TRUE
        ipart  == SubSeq(body, 1, dot - 1)
        fpart  == SubSeq(body, dot + 1, Len(body))
    IN  IF Cardinality(dots) <= 1 /\ AllDigits(ipart) /\ AllDigits(fpart)
           /\ Len(ipart) + Len(fpart) > 0
        THEN Num(neg, DigitsValue(ipart, 0), DigitsValue(fpart, 0) # 0)
        ELSE FloatRaises("ValueError")

\* float(value)
PyFloat(v) ==
    CASE v.k = "null"  -> FloatRaises("TypeError")
      [] v.k = "str"   -> FloatOfStr(v.s)
      [] v.k = "int"   -> Num(v.n < 0, IF v.n < 0 THEN 0 - v.n ELSE v.n, FALSE)
      [] v.k = "float" -> Num(FALSE, v.n, v.f # 0)
      [] v.k = "bool"  -> Num(FALSE, v.n, FALSE)

\* the largest serial parse_excel_value decodes
MaxDateSerial == 100000

\* IsDateSerial without the test float_val == int(float_val)
IsDateSerialNoIntegerTest(x) ==
    /\ ~x.neg /\ x.ip >= 1
    /\ (x.ip < MaxDateSerial \/ (x.ip = MaxDateSerial /\ ~x.frac))

\* 1 <= float_val <= 100000 and float_val == int(float_val)
IsDateSerial(x) ==
    /\ ~x.neg /\ x.ip >= 1
    /\ (x.ip < MaxDateSerial \/ (x.ip = MaxDateSerial /\ ~x.frac))
    /\ ~x.frac

\* the exceptions the try block of parse_excel_value catches
CaughtByParse == {"ValueError", "TypeError"}

\* a call that returned ret
Returned(ret) == [exc |-> "none", ret |-> ret]

\* a call that raised exc
Raised(exc) == [exc |-> exc, ret |-> Null]

\* parse_excel_value(value, column_name, parse_dates)
parse_excel_value(value, column_name, parse_dates) ==
    IF value.k = "null" \/ Strip(PyStr(value)) = <<>> THEN Returned(Null)
    ELSE IF parse_dates /\ is_excel_date_column(column_name)
    THEN LET float_val == PyFloat(value)
         IN  IF float_val.exc = "none"
             THEN IF IsDateSerial(float_val)
                  THEN Returned(Str(excel_serial_to_date(float_val.ip)))
                  ELSE Returned(Str(PyStr(value)))
             ELSE IF float_val.exc \in CaughtByParse
             THEN Returned(Str(PyStr(value)))
             ELSE Raised(float_val.exc)
    ELSE Returned(Str(PyStr(value)))

(***************************************************************************)
(* client.py: token exchange and the two data fetches, as functions of     *)
(* what the identity provider and the Graph API answer.                    *)
(***************************************************************************)
\* _get_access_token: the grant used for the configured credentials
TokenGrant(auth_type, has_refresh_token) ==
    IF auth_type = "Client" /\ has_refresh_token
    THEN "refresh_token" ELSE "client_credentials"

\* _get_access_token / get_access_token: raises when the answer of the
\* identity provider holds no access_token
get_access_token(token_ok) ==
    IF token_ok THEN Returned("access_token") ELSE Raised("MsalServiceError")

\* what get_worksheet_data returns for a 404
EmptyWorksheet == [values |-> <<>>, rowCount |-> 0, columnCount |-> 0]

\* the status get_worksheet_data takes for an empty worksheet
StatusNotFound == 404

\* the only status the client takes as success
StatusOk == 200

\* a status that is neither 200 nor 404
StatusError == 500

\* WorksheetDataResponse without the 404 case: a 404 raises like any other
\* status that is not 200
WorksheetDataResponseNo404(status, body) ==
    IF status # StatusOk THEN Raised("Exception") ELSE Returned(body)

\* get_worksheet_data after its token exchange: status and body are the
\* answer of the API
WorksheetDataResponse(status, body) ==
    IF status = StatusNotFound THEN Returned(EmptyWorksheet)
    ELSE IF status # StatusOk THEN Raised("Exception")
    ELSE Returned(body)

\* get_worksheet_data(worksheet_id, range_address)
get_worksheet_data(token_ok, status, body) ==
    IF get_access_token(token_ok).exc # "none"
    THEN Raised(get_access_token(token_ok).exc)
    ELSE WorksheetDataResponse(status, body)

\* VisibleWorksheets without the filter on visibility
AllWorksheets(listing) == listing

\* the worksheets get_worksheets keeps of the listing
VisibleWorksheets(listing) ==
    SelectSeq(listing, LAMBDA ws : ws.visibility = "Visible")

\* get_worksheets(): listing is the "value" array of the API's answer
get_worksheets(token_ok, status, listing) ==
    IF get_access_token(token_ok).exc # "none"
    THEN Raised(get_access_token(token_ok).exc)
    ELSE IF status # StatusOk THEN Raised("AirbyteTracedException")
    ELSE Returned(VisibleWorksheets(listing))

\* the answers of the API the model draws from
Statuses == {StatusOk, StatusNotFound, StatusError}

(***************************************************************************)
(* State.                                                                  *)
(***************************************************************************)
VARIABLES
    \* header processing and schema (streams.py get_json_schema)
    raw_headers,        \* first row of the worksheet
    names_conversion,   \* config["names_conversion"]
    processed,          \* what process_headers returned, once called
    schema,             \* ExcelWorksheetStream._schema
    schema_fetches,     \* get_worksheet_data calls made by get_json_schema
    schema_returns,     \* what each get_json_schema call returned, in order
    \* value coercion (utils.py)
    call,               \* the function called and its arguments
    result,             \* what the call returned or raised, once made
    \* read_records (streams.py)
    sheet,              \* the rows of the worksheet, the header row first
    config,             \* batch_size, names_conversion, parse_dates
    rstate,             \* Start, Paginating, Done, Aborted or Raised
    total_rows,         \* rowCount of the initial fetch
    current_row,        \* first row of the next window
    index_mapping,      \* column index -> column name
    fetches,            \* the get_worksheet_data calls made, with the API's answers
    row_log,            \* the returned rows, with whether each was skipped
    emitted,            \* the records yielded so far
    raised,             \* the exception that reached the consumer, or "none"
    \* the client (client.py) and the connection check (source.py)
    credentials,        \* auth_type and whether a refresh token is configured
    calls_started,      \* get_worksheets and get_worksheet_data calls started
    events,             \* token exchanges and HTTP requests, in order
    last_call           \* the last operation: the answers it met, what it returned

hdrVars == <<raw_headers, names_conversion, processed, schema, schema_fetches,
             schema_returns>>

valVars == <<call, result>>

readVars == <<sheet, config, rstate, total_rows, current_row, index_mapping,
              fetches, row_log, emitted, raised>>

cliVars == <<credentials, calls_started, events, last_call>>

vars == <<hdrVars, valVars, readVars, cliVars>>

\* no call made yet
NoResult == [done |-> FALSE, exc |-> "none", ret |-> Null]

\* the state of the header variables while another part is exercised
HdrIdle ==
    /\ raw_headers = <<>>
    /\ names_conversion = FALSE
    /\ processed = [called |-> FALSE, headers |-> <<>>, index_mapping |-> <<>>]
    /\ schema = [set |-> FALSE, has_properties |-> FALSE, properties |-> {}]
    /\ schema_fetches = 0
    /\ schema_returns = <<>>

\* the state of the coercion variables while another part is exercised
ValIdle ==
    /\ call = [fn |-> "none", serial |-> 0, value |-> Null,
               column |-> Str(<<>>), parse_dates |-> FALSE]
    /\ result = NoResult

\* no operation of the client made yet
NoCall ==
    [op |-> "none", config_ok |-> TRUE, token_ok |-> TRUE, status |-> 0,
     listing |-> <<>>, exc |-> "none", value |-> FALSE]

\* the state of the client variables while another part is exercised
CliIdle ==
    /\ credentials = [auth_type |-> "Service", has_refresh_token |-> FALSE]
    /\ calls_started = 0
    /\ events = <<>>
    /\ last_call = NoCall

\* the state of the read_records variables while another part is exercised
ReadIdle ==
    /\ sheet = <<>>
    /\ config = [batch_size |-> 1, names_conversion |-> FALSE, parse_dates |-> FALSE]
    /\ rstate = "Idle"
    /\ total_rows = 0
    /\ current_row = 0
    /\ index_mapping = <<>>
    /\ fetches = <<>>
    /\ row_log = {}
    /\ emitted = <<>>
    /\ raised = "none"

(***************************************************************************)
(* Header processing and schema.                                           *)
(***************************************************************************)
\* header cells the rows are drawn from: null, empty, blank, names, and a
\* name that looks like a deduplicated one
HeaderPool ==
    { Null, Str(<<>>), Str(<<" ">>), Str(<<"A">>), Str(<<"A","_","B","1">>),
      Str(<<"D","u","é"," ","#","ß">>) }

\* most get_json_schema calls on one stream
MaxSchemaCalls == 3

\* sequences over S of length at most n
SeqsUpTo(S, n) == UNION {[1..k -> S] : k \in 0..n}

\* process_headers not called yet
NotRun == [called |-> FALSE, headers |-> <<>>, index_mapping |-> <<>>]

\* self._schema = None
NoSchema == [set |-> FALSE, has_properties |-> FALSE, properties |-> {}]

\* the schema get_json_schema builds from the fetched data
BuiltSchema(data, conversion) ==
    LET properties ==
            IF data.values # <<>> /\ Len(data.values) > 0
            THEN LET headers == process_headers(data.values[1], conversion).headers
                 IN  {headers[i] : i \in {j \in DOMAIN headers : Truthy(headers[j])}}
            ELSE {}
    IN  [set |-> TRUE, has_properties |-> TRUE, properties |-> properties]

\* FallbackSchema returned without being stored in self._schema
FallbackNotStored == [set |-> FALSE, has_properties |-> FALSE, properties |-> {}]

\* the fallback schema of get_json_schema: no "properties" key
FallbackSchema == [set |-> TRUE, has_properties |-> FALSE, properties |-> {}]

\* the used range of a worksheet with the given rows
UsedRange(rows) ==
    [values |-> rows, rowCount |-> Len(rows), columnCount |-> 0]

HdrInit ==
    /\ raw_headers \in SeqsUpTo(HeaderPool, MaxHeaderLen)
    /\ names_conversion \in BOOLEAN
    /\ processed = NotRun
    /\ schema = NoSchema
    /\ schema_fetches = 0
    /\ schema_returns = <<>>
    /\ ValIdle
    /\ ReadIdle
    /\ CliIdle

\* process_headers(raw_headers, names_conversion)
ProcessHeaders ==
    /\ ~processed.called
    /\ processed' = [called |-> TRUE,
                     headers |-> process_headers(raw_headers, names_conversion).headers,
                     index_mapping |->
                         process_headers(raw_headers, names_conversion).index_mapping]
    /\ UNCHANGED <<raw_headers, names_conversion, schema, schema_fetches, schema_returns,
                   valVars, readVars, cliVars>>

\* one get_json_schema call as recorded in schema_returns: the exception it
\* raised ("none": it returned), the value returned, the fetches it made
SchemaCall(exc, ret, fetched) == [exc |-> exc, ret |-> ret, fetched |-> fetched]

\* get_json_schema() when self._schema is None: one fetch, then the schema
\* or, on any exception of the try block, the fallback is stored; self._schema
\* is returned
GetJsonSchemaFirst ==
    /\ ~schema.set
    /\ Len(schema_returns) < MaxSchemaCalls
    /\ \E token_ok \in BOOLEAN, status \in Statuses :
       \E got \in {get_worksheet_data(token_ok, status, UsedRange(<<raw_headers>>))} :
       \E stored \in {IF got.exc = "none"
                      THEN BuiltSchema(got.ret, names_conversion)
                      ELSE FallbackSchema} :
          /\ schema' = stored
          /\ schema_returns' = Append(schema_returns, SchemaCall("none", stored, 1))
    /\ schema_fetches' = schema_fetches + 1
    /\ UNCHANGED <<raw_headers, names_conversion, processed, valVars, readVars, cliVars>>

\* get_json_schema() when self._schema is set: returned as it is
GetJsonSchemaCached ==
    /\ schema.set
    /\ Len(schema_returns) < MaxSchemaCalls
    /\ schema_returns' = Append(schema_returns, SchemaCall("none", schema, 0))
    /\ UNCHANGED <<raw_headers, names_conversion, processed, schema, schema_fetches,
                   valVars, readVars, cliVars>>

HdrNext == ProcessHeaders \/ GetJsonSchemaFirst \/ GetJsonSchemaCached

SpecHeaders == HdrInit /\ [][HdrNext]_vars

\* a header cell that is empty: the empty string or null
IsBlankHeader(h) == h = Null \/ h = Str(<<>>)

\* C3: once process_headers has run, no two indices of the index mapping
\* carry the same final column name.
HeaderNamesUnique ==
    processed.called =>
        \A i, j \in DOMAIN processed.index_mapping :
            i # j => processed.index_mapping[i] # processed.index_mapping[j]

\* C4: a header row of blank cells only gives an empty index mapping and a
\* schema without properties, and a blank header cell is never a key of the
\* index mapping.
BlankHeadersNeverColumns ==
    LET allBlank == \A i \in DOMAIN raw_headers : IsBlankHeader(raw_headers[i])
    IN  /\ processed.called /\ allBlank => DOMAIN processed.index_mapping = {}
        /\ schema.has_properties /\ allBlank => schema.properties = {}
        /\ processed.called =>
               \A idx \in DOMAIN processed.index_mapping :
                   ~IsBlankHeader(raw_headers[idx + 1])

\* C12: over any sequence of get_json_schema calls on one stream no call
\* raises, the worksheet data is fetched once, by the first call, and every
\* call returns the value the first one returned, which is the stored schema,
\* the fallback schema included.
SchemaMemoized ==
    /\ schema_fetches <= 1
    /\ schema_fetches = (IF schema_returns = <<>> THEN 0 ELSE 1)
    /\ \A i \in DOMAIN schema_returns :
          /\ schema_returns[i].exc = "none"
          /\ schema_returns[i].fetched = (IF i = 1 THEN 1 ELSE 0)
          /\ schema_returns[i].ret = schema_returns[1].ret
          /\ schema_returns[i].ret = schema

\* the first call's fetch failed, the fallback was stored and two later calls
\* returned it
SchemaMemoizedWitness ==
    /\ Len(schema_returns) = 3
    /\ schema_returns[1].ret = FallbackSchema
    /\ schema_returns[3].fetched = 0
    /\ schema_fetches = 1

(***************************************************************************)
(* Value coercion: excel_serial_to_date and parse_excel_value applied to   *)
(* enumerated arguments.                                                   *)
(***************************************************************************)
\* serials 1..MaxLowSerial are enumerated around the 1900 leap-year bug
MaxLowSerial == 130

\* serials within SerialSpan of 45000 are enumerated
SerialSpan == 12

ModernSerials == (45000 - SerialSpan)..(45000 + SerialSpan)

SerialPool == (1..MaxLowSerial) \cup ModernSerials \cup {MaxDateSerial}

\* cell values parse_excel_value is applied to
ValuePool ==
    { Null, Str(<<>>), Str(<<" ">>), Str(<<"a","b","c">>),
      Str(<<"4","5","0","0","0">>), Str(<<" ","6","1"," ">>),
      Str(<<"1",".","5">>), Str(<<"-","3">>), Str(<<"6","1",".","0">>),
      IntCell(0), IntCell(1), IntCell(61), IntCell(45000),
      IntCell(MaxDateSerial), IntCell(MaxDateSerial + 1), IntCell(0 - 5),
      Float(45000, 0), Float(2, 5), Float(0, 0),
      Bool(TRUE), Bool(FALSE) }

\* column names parse_excel_value is applied to
ColumnPool ==
    { Str(<<"N","a","m","e">>), Str(<<"C","r","e","a","t","e","d"," ","D","a","t","e">>),
      Str(<<"D","U","E">>), Str(<<"x">>), Str(<<"u","p","d","a","t","e">>) }

SerialCalls ==
    { [fn |-> "excel_serial_to_date", serial |-> n, value |-> Null,
       column |-> Str(<<>>), parse_dates |-> FALSE] : n \in SerialPool }

ParseCalls ==
    { [fn |-> "parse_excel_value", serial |-> 0, value |-> v,
       column |-> c, parse_dates |-> b] :
         v \in ValuePool, c \in ColumnPool, b \in BOOLEAN }

ValInit ==
    /\ call \in SerialCalls \cup ParseCalls
    /\ result = NoResult
    /\ HdrIdle
    /\ ReadIdle
    /\ CliIdle

\* excel_serial_to_date(call.serial)
CallSerialToDate ==
    /\ call.fn = "excel_serial_to_date"
    /\ ~result.done
    /\ result' = [done |-> TRUE, exc |-> "none",
                  ret |-> Str(excel_serial_to_date(call.serial))]
    /\ UNCHANGED <<call, hdrVars, readVars, cliVars>>

\* parse_excel_value(call.value, call.column, call.parse_dates)
CallParseExcelValue ==
    /\ call.fn = "parse_excel_value"
    /\ ~result.done
    /\ LET out == parse_excel_value(call.value, call.column, call.parse_dates)
       IN  result' = [done |-> TRUE, exc |-> out.exc, ret |-> out.ret]
    /\ UNCHANGED <<call, hdrVars, readVars, cliVars>>

ValNext == CallSerialToDate \/ CallParseExcelValue

SpecValue == ValInit /\ [][ValNext]_vars

\* the characters of a date
Ymd(y1, y2, y3, y4, m1, m2, d1, d2) == <<y1, y2, y3, y4, "-", m1, m2, "-", d1, d2>>

\* C5: excel_serial_to_date maps serial 1 to 1899-12-31 and serial 61 to
\* 1900-03-01, never returns 1900-02-29, and maps serials around 45000 to
\* dates of the year 2023.
SerialDecoding ==
    result.done /\ call.fn = "excel_serial_to_date" =>
        /\ call.serial = 1 => result.ret.s = Ymd("1","8","9","9","1","2","3","1")
        /\ call.serial = 61 => result.ret.s = Ymd("1","9","0","0","0","3","0","1")
        /\ result.ret.s # Ymd("1","9","0","0","0","2","2","9")
        /\ call.serial \in ModernSerials =>
               SubSeq(result.ret.s, 1, 4) = <<"2","0","2","3">>

\* s has the form YYYY-MM-DD
IsYmd(s) ==
    /\ Len(s) = 10
    /\ \A i \in 1..10 : IF i \in {5, 8} THEN s[i] = "-" ELSE IsDigit(s[i])

MaxRows == 4

\* largest configured batch_size
MaxBatch == 3

\* most negative configured batch_size, as a magnitude
MaxNegBatch == 1

\* the configured batch sizes: batch_size is an int without a lower bound
BatchSizes == (0 - MaxNegBatch)..MaxBatch

\* most requests of a window without rows (end_row < current_row, as
\* batch_size <= 0 gives) that are followed in one read
MaxEmptyWindows == 2

Min(a, b) == IF a <= b THEN a ELSE b

\* EndRow without the - 1
EndRowOffByOne(current, batch_size, total) == Min(current + batch_size, total)

\* end_row = min(current_row + batch_size - 1, total_rows)
EndRow(current, batch_size, total) == Min(current + batch_size - 1, total)

\* f"A{current_row}:Z{end_row}"
RangeAddress(current, end_row) ==
    <<"A">> \o IntStr(current) \o <<":", "Z">> \o IntStr(end_row)

\* the rows start..end_row of the worksheet, as the API answers a range
RangeBody(rows, start, end_row) ==
    UsedRange(SubSeq(rows, start, Min(end_row, Len(rows))))

\* the test of "Skip empty rows":
\* not any(cell for cell in row if cell is not None and str(cell).strip())
IsSkippedRow(row) ==
    ~\E i \in DOMAIN row :
        /\ row[i].k # "null" /\ Strip(PyStr(row[i])) # <<>>
        /\ Truthy(row[i])

\* the largest element of a non-empty set of integers
MaxOf(S) == CHOOSE x \in S : \A y \in S : y <= x

\* the loop over index_mapping.items() that builds a record (the items come
\* in index order): parsed holds parse_excel_value of each mapped cell the
\* row has; the loop ends at the first call that raises (exc, "none" if no
\* call raises); a value that is not None is stored under its column name,
\* a later index overwriting an earlier one of the same name
build_record_from(mapping, idxs, parsed) ==
    LET failing == {idx \in idxs : parsed[idx].exc # "none"}
        kept    == {idx \in idxs : /\ parsed[idx].exc = "none"
                                   /\ parsed[idx].ret # Null
                                   /\ \A j \in failing : idx < j}
    IN  [exc    |-> IF failing = {} THEN "none"
                    ELSE parsed[CHOOSE j \in failing : \A i \in failing : j <= i].exc,
         record |-> [h \in {mapping[i] : i \in kept} |->
                        parsed[MaxOf({i \in kept : mapping[i] = h})].ret]]

\* the record built for one row
build_record(row, mapping, parse_dates) ==
    build_record_from(mapping,
        {idx \in DOMAIN mapping : idx < Len(row)},
        [idx \in {i \in DOMAIN mapping : i < Len(row)} |->
            parse_excel_value(row[idx + 1], mapping[idx], parse_dates)])

\* after_row without the test of the record: an empty record is yielded too
after_rowYieldsEmpty(acc, row, built) ==
    IF built.exc # "none"
    THEN [acc EXCEPT !.log = @ \cup {[row |-> row, skipped |-> FALSE]},
                     !.exc = built.exc]
    ELSE [acc EXCEPT !.log = @ \cup {[row |-> row, skipped |-> FALSE]},
                     !.records = Append(@, built.record)]

\* the loop body for one row that is not skipped: built is its record
after_row(acc, row, built) ==
    IF built.exc # "none"
    THEN [acc EXCEPT !.log = @ \cup {[row |-> row, skipped |-> FALSE]},
                     !.exc = built.exc]
    ELSE [acc EXCEPT !.log = @ \cup {[row |-> row, skipped |-> FALSE]},
                     !.records = IF DOMAIN built.record # {}
                                 THEN Append(@, built.record) ELSE @]

\* the loop body for one row: skipped, or turned into a record
process_row(acc, row, mapping, parse_dates) ==
    IF IsSkippedRow(row)
    THEN [acc EXCEPT !.log = @ \cup {[row |-> row, skipped |-> TRUE]}]
    ELSE after_row(acc, row, build_record(row, mapping, parse_dates))

RECURSIVE process_rows(_, _, _, _)
\* the loop over the rows of one window: the records yielded, the rows met
\* with whether each was skipped, and the exception that ended the loop
process_rows(values, mapping, parse_dates, acc) ==
    IF values = <<>> \/ acc.exc # "none" THEN acc
    ELSE process_rows(Tail(values), mapping, parse_dates,
                      process_row(acc, Head(values), mapping, parse_dates))

\* what one window leaves: the records, the row log and the exception, for
\* the answer data of the fetch
window_result(data, mapping, parse_dates, records, log) ==
    IF data.exc = "none"
    THEN process_rows(data.ret.values, mapping, parse_dates,
                      [records |-> records, log |-> log, exc |-> "none"])
    ELSE [records |-> records, log |-> log, exc |-> data.exc]

\* OnBatchError with continue in place of break: the loop goes on
OnBatchErrorContinue == "Paginating"

\* the state after the except clause of the loop: the error is logged and
\* the loop is left
OnBatchError == "Aborted"

\* the state after a window, or after the headers: the loop goes on while
\* current_row <= total_rows
LoopState(current, total) == IF current <= total THEN "Paginating" ELSE "Done"

\* header rows of the worksheets (two columns)
ReadHeaderPool ==
    { <<Str(<<"N","a","m","e">>), Str(<<"D","u","e">>)>>,
      <<Str(<<"N","a","m","e">>), Str(<<>>)>> }

\* data rows of the worksheets (two columns; the cells a range adds to the
\* right of the used range are empty strings and change nothing)
RowPool ==
    { <<Str(<<"B","o","b">>), IntCell(45000)>>,
      <<Str(<<>>), Str(<<>>)>>,
      <<Null, Str(<<" ">>)>>,
      <<IntCell(0), Bool(FALSE)>>,
      <<Str(<<>>), Str(<<"x">>)>> }

\* the worksheets: no row at all, or a header row and up to MaxRows - 1 rows
Sheets ==
    {<<>>} \cup
    { <<h>> \o d : h \in ReadHeaderPool, d \in SeqsUpTo(RowPool, MaxRows - 1) }

\* one get_worksheet_data call of read_records, as logged in fetches: the
\* window (0, 0 and no address for the used range) and the answers
Fetch(start, end_row, address, token_ok, status) ==
    [start |-> start, end_row |-> end_row, address |-> address,
     token_ok |-> token_ok, status |-> status]

ReadInit ==
    /\ sheet \in Sheets
    /\ config \in [batch_size : BatchSizes, names_conversion : BOOLEAN,
                   parse_dates : BOOLEAN]
    /\ rstate = "Start"
    /\ total_rows = 0
    /\ current_row = 0
    /\ index_mapping = <<>>
    /\ fetches = <<>>
    /\ row_log = {}
    /\ emitted = <<>>
    /\ raised = "none"
    /\ HdrIdle
    /\ ValIdle
    /\ CliIdle

\* read_records up to the while loop: the used range is fetched; an
\* exception of the fetch reaches the consumer; fewer than two rows end the
\* generator; else the headers are processed
ReadStart ==
    /\ rstate = "Start"
    /\ \E token_ok \in BOOLEAN, status \in Statuses :
       \E initial_data \in {get_worksheet_data(token_ok, status, UsedRange(sheet))} :
              /\ fetches' = Append(fetches, Fetch(0, 0, <<>>, token_ok, status))
              /\ IF initial_data.exc # "none"
                 THEN /\ rstate' = "Raised"
                      /\ raised' = initial_data.exc
                      /\ UNCHANGED <<total_rows, current_row, index_mapping>>
                 ELSE IF initial_data.ret.values = <<>>
                         \/ Len(initial_data.ret.values) < 2
                 THEN /\ rstate' = "Done"
                      /\ UNCHANGED <<total_rows, current_row, index_mapping, raised>>
                 ELSE /\ index_mapping' =
                             process_headers(initial_data.ret.values[1],
                                             config.names_conversion).index_mapping
                      /\ total_rows' = initial_data.ret.rowCount
                      /\ current_row' = 2
                      /\ rstate' = LoopState(2, initial_data.ret.rowCount)
                      /\ UNCHANGED raised
    /\ UNCHANGED <<sheet, config, row_log, emitted, hdrVars, valVars, cliVars>>

\* one iteration of the while loop: the window is fetched; its rows are
\* skipped or turned into records; any exception ends the loop
ReadBatch ==
    /\ rstate = "Paginating"
    /\ Cardinality({i \in DOMAIN fetches : /\ fetches[i].address # <<>>
                                            /\ fetches[i].end_row < fetches[i].start})
          < MaxEmptyWindows
    /\ \E token_ok \in BOOLEAN, status \in Statuses :
       \E end_row \in {EndRow(current_row, config.batch_size, total_rows)} :
       \E rows \in {window_result(
                        get_worksheet_data(token_ok, status,
                                           RangeBody(sheet, current_row, end_row)),
                        index_mapping, config.parse_dates, emitted, row_log)} :
          /\ fetches' = Append(fetches,
                 Fetch(current_row, end_row,
                       RangeAddress(current_row, end_row), token_ok, status))
          /\ emitted' = rows.records
          /\ row_log' = rows.log
          /\ IF rows.exc # "none"
             THEN /\ rstate' = OnBatchError
                  /\ UNCHANGED current_row
             ELSE /\ current_row' = end_row + 1
                  /\ rstate' = LoopState(end_row + 1, total_rows)
    /\ UNCHANGED <<sheet, config, total_rows, index_mapping, raised, hdrVars, valVars, cliVars>>

ReadNext == ReadStart \/ ReadBatch

SpecRead == ReadInit /\ [][ReadNext]_vars

\* the range fetches of read_records, in the order they were made
RangeFetches == SelectSeq(fetches, LAMBDA x : x.address # <<>>)

\* the used-range fetches of read_records
UsedRangeFetches == SelectSeq(fetches, LAMBDA x : x.address = <<>>)

\* the fetch raised: the token exchange failed, or the API answered neither
\* 200 nor 404
FetchRaised(x) == ~x.token_ok \/ x.status \notin {200, 404}

\* the rows of a window
Window(x) == x.start..x.end_row

\* the generator has ended
Drained == rstate \in {"Done", "Aborted", "Raised"}

\* C1: with batch_size >= 1 the windows requested as A<start>:Z<end> start at
\* row 2, each next one starts at the previous end + 1, none is empty or
\* taller than batch_size or ends beyond rowCount; when no fetch raised and
\* the generator has ended on a worksheet of rowCount N >= 2, the last window
\* ends at N and the windows cover exactly rows 2..N without overlap.
PaginationExhaustive ==
    LET w == RangeFetches
    IN  config.batch_size >= 1 =>
        /\ \A i \in DOMAIN w :
              /\ w[i].start = IF i = 1 THEN 2 ELSE w[i - 1].end_row + 1
              /\ w[i].start <= w[i].end_row
              /\ w[i].end_row - w[i].start + 1 <= config.batch_size
              /\ w[i].end_row <= total_rows
              /\ w[i].address =
                     <<"A">> \o IntStr(w[i].start) \o <<":", "Z">> \o IntStr(w[i].end_row)
        /\ (Drained /\ \A i \in DOMAIN fetches : ~FetchRaised(fetches[i]))
              => rstate = "Done"
        /\ (rstate = "Done" /\ total_rows >= 2) =>
              /\ w # <<>>
              /\ w[Len(w)].end_row = total_rows
              /\ UNION {Window(w[i]) : i \in DOMAIN w} = 2..total_rows
              /\ \A i, j \in DOMAIN w : i # j => Window(w[i]) \cap Window(w[j]) = {}

\* a worksheet of four rows read with batch_size 2: two windows, the generator
\* has ended
PaginationWitness ==
    /\ rstate = "Done" /\ total_rows = 4 /\ config.batch_size = 2
    /\ Len(RangeFetches) = 2
    /\ RangeFetches[2].start = 4 /\ RangeFetches[2].end_row = 4

\* s is a prefix of q
IsPrefix(s, q) == Len(s) <= Len(q) /\ SubSeq(q, 1, Len(s)) = s

\* what holds in every state for C2: a range fetch that raised is the last
\* fetch made, the state is then Aborted and nothing reached the consumer;
\* the used range was fetched once
AbortedAtFailure ==
    /\ \A i \in DOMAIN fetches :
          (fetches[i].address # <<>> /\ FetchRaised(fetches[i])) =>
              /\ i = Len(fetches)
              /\ rstate = "Aborted"
              /\ raised = "none"
    /\ Len(UsedRangeFetches) <= 1

\* what holds of every step for C2: the records yielded stay, a failing
\* fetch adds no record, and nothing happens after Aborted
AbortStep ==
    /\ IsPrefix(emitted, emitted')
    /\ (fetches' # fetches /\ FetchRaised(fetches'[Len(fetches')])) => emitted' = emitted
    /\ rstate = "Aborted" => UNCHANGED readVars

\* C2: when the range fetch of a window raises, the record sequence ends
\* there in state Aborted without raising to the consumer; the records of
\* earlier windows stay emitted, the failed window is not requested again,
\* no later window is requested and the used range is not fetched again.
AbortOnBatchFailure == []AbortedAtFailure /\ [][AbortStep]_vars

\* a second window failed after the first had yielded a record
AbortWitness ==
    /\ rstate = "Aborted" /\ emitted # <<>>
    /\ Len(RangeFetches) = 2
    /\ FetchRaised(fetches[Len(fetches)])

\* a cell that is null or whose string form is empty or whitespace only
IsBlankCell(c) == c = Null \/ Strip(PyStr(c)) = <<>>

\* C6: a returned row is skipped exactly when every cell of it is null or
\* blank; a row with a non-blank cell of any type goes on to record building.
RowSkipping ==
    \A e \in row_log :
        e.skipped <=> \A i \in DOMAIN e.row : IsBlankCell(e.row[i])

\* C8: when the initial fetch returns fewer than two rows, the 404 answer
\* included, read_records yields nothing, requests no window and ends
\* without error.
EmptyWorksheetDone ==
    (/\ fetches # <<>>
     /\ fetches[1].token_ok
     /\ \/ fetches[1].status = 404
        \/ fetches[1].status = 200 /\ Len(sheet) < 2)
    => /\ rstate = "Done"
       /\ emitted = <<>>
       /\ Len(fetches) = 1
       /\ raised = "none"

\* the API answered 404 for the used range of a worksheet that has rows
EmptyWorksheetWitness ==
    /\ fetches # <<>> /\ fetches[1].token_ok /\ fetches[1].status = 404
    /\ Len(sheet) >= 2
    /\ rstate = "Done"

\* the mapped cells of the row all coerce to None
AllAbsent(row) ==
    \A idx \in DOMAIN index_mapping :
        idx < Len(row) =>
            parse_excel_value(row[idx + 1], index_mapping[idx],
                              config.parse_dates).ret = Null

\* the rows the answered windows returned that are neither skipped nor
\* without a value, each with the fetch that returned it
YieldingRows ==
    { <<i, r>> \in (DOMAIN fetches) \X (1..Len(sheet)) :
        /\ fetches[i].address # <<>>
        /\ fetches[i].token_ok /\ fetches[i].status = 200
        /\ r \in Window(fetches[i])
        /\ ~IsSkippedRow(sheet[r])
        /\ ~AllAbsent(sheet[r]) }

\* C11: every record yielded has at least one field and no null field value,
\* and the records are one per returned row that is not skipped and has a
\* coerced value for some mapped column: a row whose mapped values are all
\* absent yields nothing.
NoEmptyRecord ==
    /\ \A i \in DOMAIN emitted :
          /\ DOMAIN emitted[i] # {}
          /\ \A h \in DOMAIN emitted[i] : emitted[i][h] # Null
    /\ Len(emitted) = Cardinality(YieldingRows)

\* a returned row that is not skipped and whose only mapped cell is empty gave
\* no record, next to a row that gave one
NoEmptyRecordWitness ==
    /\ rstate = "Done"
    /\ \E e \in row_log : ~e.skipped /\ AllAbsent(e.row)
    /\ Len(emitted) = 1

\* C13: for every rowCount and every configured batch_size, 0 and negative
\* values included, current_row is beyond the start of the window after every
\* batch that succeeded, and a read makes at most one range request per data
\* row, so that it ends after finitely many requests.
PaginationTerminates ==
    LET w == RangeFetches
    IN  /\ \A i \in DOMAIN w :
              ~FetchRaised(w[i]) =>
                  (IF i < Len(w) THEN w[i + 1].start ELSE current_row) > w[i].start
        /\ Len(w) <= (IF total_rows >= 2 THEN total_rows - 1 ELSE 0)

(***************************************************************************)
(* client.py and source.py: sequences of data fetches and connection       *)
(* checks on one client.                                                   *)
(***************************************************************************)
\* most operations in one run
MaxCalls == 2

\* most worksheets in a listing
MaxSheets == 1

Visibilities == {"Visible", "Hidden", "VeryHidden"}

\* the "value" arrays the API answers a listing with
Listings ==
    { [i \in DOMAIN v |-> [id |-> i, visibility |-> v[i]]] :
         v \in SeqsUpTo(Visibilities, MaxSheets) }

\* get_access_token with a token kept from an earlier call of the client
UsesCachedToken(exchanges_so_far) == exchanges_so_far > 0

\* whether a data fetch reuses a token of an earlier call: never, each call
\* starts with self.get_access_token()
ReusesToken(exchanges_so_far) == FALSE

\* the token exchanges among the events
TokenExchanges == SelectSeq(events, LAMBDA e : e.kind = "token")

\* the events of one data fetch, call number id: its token exchange, and
\* its HTTP request when the exchange gave a token
FetchEvents(id, token_ok) ==
    (IF ReusesToken(Len(TokenExchanges)) THEN <<>>
     ELSE << [call |-> id, kind |-> "token",
              grant |-> TokenGrant(credentials.auth_type,
                                   credentials.has_refresh_token)] >>)
    \o (IF token_ok \/ ReusesToken(Len(TokenExchanges))
        THEN << [call |-> id, kind |-> "http", grant |-> "none"] >> ELSE <<>>)

\* ExcelSheetsClient.check_connection(): what it returns for the outcome of
\* get_worksheets
client_check_connection(worksheets) ==
    IF worksheets.exc # "none" THEN Returned(FALSE)
    ELSE Returned(Len(worksheets.ret) > 0)

\* SourceExcelSheets.check_connection(): the boolean of the pair it returns;
\* config_ok says SourceExcelSheetsSpec(**config) did not raise
source_check_connection(config_ok, worksheets) ==
    IF ~config_ok THEN Returned(FALSE)
    ELSE IF worksheets.exc # "none" THEN Returned(FALSE)
    ELSE IF worksheets.ret = <<>> THEN Returned(FALSE)
    ELSE Returned(TRUE)

CliInit ==
    /\ credentials \in { [auth_type |-> "Client", has_refresh_token |-> TRUE],
                         [auth_type |-> "Client", has_refresh_token |-> FALSE],
                         [auth_type |-> "Service", has_refresh_token |-> FALSE] }
    /\ calls_started = 0
    /\ events = <<>>
    /\ last_call = NoCall
    /\ HdrIdle
    /\ ValIdle
    /\ ReadIdle

\* what an operation leaves in last_call
Called(op, config_ok, token_ok, status, listing, exc, value) ==
    [op |-> op, config_ok |-> config_ok, token_ok |-> token_ok, status |-> status,
     listing |-> listing, exc |-> exc, value |-> value]

\* client.get_worksheets()
GetWorksheets ==
    /\ calls_started < MaxCalls
    /\ \E token_ok \in BOOLEAN, status \in Statuses, listing \in Listings :
          /\ calls_started' = calls_started + 1
          /\ events' = events \o FetchEvents(calls_started + 1, token_ok)
          /\ last_call' = Called("get_worksheets", TRUE, token_ok, status, listing,
                                 get_worksheets(token_ok, status, listing).exc, FALSE)
    /\ UNCHANGED <<credentials, hdrVars, valVars, readVars>>

\* client.get_worksheet_data(worksheet_id, range_address)
GetWorksheetData ==
    /\ calls_started < MaxCalls
    /\ \E token_ok \in BOOLEAN, status \in Statuses :
          /\ calls_started' = calls_started + 1
          /\ events' = events \o FetchEvents(calls_started + 1, token_ok)
          /\ last_call' = Called("get_worksheet_data", TRUE, token_ok, status, <<>>,
                                 get_worksheet_data(token_ok, status,
                                                    EmptyWorksheet).exc, FALSE)
    /\ UNCHANGED <<credentials, hdrVars, valVars, readVars>>

\* client.check_connection(): get_worksheets() inside try / except Exception
ClientCheckConnection ==
    /\ calls_started < MaxCalls
    /\ \E token_ok \in BOOLEAN, status \in Statuses, listing \in Listings :
          /\ calls_started' = calls_started + 1
          /\ events' = events \o FetchEvents(calls_started + 1, token_ok)
          /\ last_call' = Called("client_check_connection", TRUE, token_ok, status,
                                 listing,
                                 client_check_connection(
                                     get_worksheets(token_ok, status, listing)).exc,
                                 client_check_connection(
                                     get_worksheets(token_ok, status, listing)).ret)
    /\ UNCHANGED <<credentials, hdrVars, valVars, readVars>>

\* source.check_connection(logger, config): the configuration is parsed and
\* get_worksheets() called inside try / except Exception; a configuration
\* that does not parse starts no fetch
SourceCheckConnection ==
    /\ calls_started < MaxCalls
    /\ \E config_ok \in BOOLEAN, token_ok \in BOOLEAN, status \in Statuses,
          listing \in Listings :
          /\ calls_started' = IF config_ok THEN calls_started + 1 ELSE calls_started
          /\ events' = IF config_ok
                       THEN events \o FetchEvents(calls_started + 1, token_ok)
                       ELSE events
          /\ last_call' = Called("source_check_connection", config_ok, token_ok,
                                 status, listing,
                                 source_check_connection(config_ok,
                                     get_worksheets(token_ok, status, listing)).exc,
                                 source_check_connection(config_ok,
                                     get_worksheets(token_ok, status, listing)).ret)
    /\ UNCHANGED <<credentials, hdrVars, valVars, readVars>>

CliNext ==
    GetWorksheets \/ GetWorksheetData \/ ClientCheckConnection \/ SourceCheckConnection

SpecClient == CliInit /\ [][CliNext]_vars

\* C9: check_connection returns true iff the listing succeeds and holds a
\* visible worksheet; when the token exchange or the listing raises, or no
\* worksheet is visible, it returns false and raises nothing.
ConnectionCheckTotal ==
    last_call.op \in {"client_check_connection", "source_check_connection"} =>
        /\ last_call.exc = "none"
        /\ last_call.value <=>
              /\ last_call.config_ok
              /\ last_call.token_ok
              /\ last_call.status = 200
              /\ \E i \in DOMAIN last_call.listing :
                    last_call.listing[i].visibility = "Visible"

\* a connection check met a failing token exchange and returned false
ConnectionCheckWitness ==
    /\ last_call.op = "client_check_connection"
    /\ ~last_call.token_ok
    /\ last_call.exc = "none" /\ last_call.value = FALSE

\* C10: each data fetch makes exactly one token exchange of its own, before
\* its HTTP request, so the token exchanges are as many as the fetches
\* started.
FreshTokenPerFetch ==
    /\ Len(TokenExchanges) = calls_started
    /\ \A id \in 1..calls_started :
          Cardinality({i \in DOMAIN events :
                          events[i].call = id /\ events[i].kind = "token"}) = 1
    /\ \A i \in DOMAIN events :
          events[i].kind = "http" =>
              /\ i > 1
              /\ events[i - 1].kind = "token"
              /\ events[i - 1].call = events[i].call

\* two fetches were started, the first of them without getting a token
FreshTokenWitness ==
    /\ calls_started = 2
    /\ Len(TokenExchanges) = 2
    /\ Len(events) = 3
    /\ events[1].kind = "token" /\ events[2].kind = "token"
    /\ events[3].kind = "http" /\ events[3].call = 2

====
